---- MODULE Spec2Model ----
(***************************************************************************)
(* A model of scripts/parse_dict_entries.py: the filename sanitiser and    *)
(* the splitter that writes one JSON file per dictionary entry.            *)
(*                                                                         *)
(* Text (titles, filenames, file contents) is a sequence of Unicode code   *)
(* points, so that the regular expression, str.strip, the f-string and     *)
(* json.dump are modelled by what they do to the characters.               *)
(*                                                                         *)
(* Out of the model: limits of the file system on a name (its length, a    *)
(* NUL character, case folding); a write to a directory that exists is     *)
(* taken to succeed.                                                       *)
(***************************************************************************)
EXTENDS Integers, Sequences, FiniteSets, TLC

VARIABLES
  input,        \* the content of the input file (fixed for all runs)
  outdir,       \* what is at the output path: "absent", "dir" or "file"
  fs,           \* the output directory: filename -> file content
  pc,           \* the position of split_dictionary
  run,          \* the number of the current invocation
  entries,      \* the value json.load returned
  i,            \* the position of the for loop in entries
  seen_counts,  \* the defaultdict(int) of line 61
  log,          \* the files opened for writing in this run, in order
  log0,         \* the files the previous run opened for writing
  fs0,          \* the output directory as this run found it
  err,          \* the exception that ended the run, or "none"
  raw,          \* sanitise_filename: the argument it was called with
  name,         \* sanitise_filename: the local variable name
  spc           \* sanitise_filename: its position

vars == <<input, outdir, fs, pc, run, entries, i, seen_counts, log, log0, fs0, err,
          raw, name, spc>>

sanVars == <<raw, name, spc>>

----------------------------------------------------------------------------
(* Bounds *)

MaxEntries == 3
MaxRuns == 2
MaxNameLen == 3

----------------------------------------------------------------------------
(* Characters *)

\* The character class of line 39:  \ / : * ? " < > |
Reserved == {92, 47, 58, 42, 63, 34, 60, 62, 124}

\* The characters str.strip() removes (those for which str.isspace() holds).
Whitespace ==
  {9, 10, 11, 12, 13, 28, 29, 30, 31, 32, 133, 160, 5760}
    \cup (8192..8202) \cup {8232, 8233, 8239, 8287, 12288}

EmptyMap == [x \in {} |-> 0]

\* dict[key] = value
Put(m, key, value) ==
  [x \in (DOMAIN m) \cup {key} |-> IF x = key THEN value ELSE m[x]]

----------------------------------------------------------------------------
(* sanitise_filename, lines 24-42 *)

\* A variant of ReSub that deletes the reserved characters.
RECURSIVE ReSub_Delete(_)
ReSub_Delete(s) ==
  IF s = <<>> THEN <<>>
  ELSE IF Head(s) \in Reserved THEN ReSub_Delete(Tail(s))
  ELSE <<Head(s)>> \o ReSub_Delete(Tail(s))

\* re.sub(invalid_chars, "_", name): each match is one character, replaced
\* by one underscore (95).
ReSub(s) == [k \in 1..Len(s) |-> IF s[k] \in Reserved THEN 95 ELSE s[k]]

RECURSIVE LStrip(_)
LStrip(s) ==
  IF s = <<>> THEN s
  ELSE IF Head(s) \in Whitespace THEN LStrip(Tail(s)) ELSE s

RECURSIVE RStrip(_)
RStrip(s) ==
  IF s = <<>> THEN s
  ELSE IF s[Len(s)] \in Whitespace THEN RStrip(SubSeq(s, 1, Len(s) - 1)) ELSE s

\* A variant of Strip that strips the left end only.
Strip_LeftOnly(s) == LStrip(s)

\* name.strip()
Strip(s) == RStrip(LStrip(s))

sanitise_filename(s) == Strip(ReSub(s))

----------------------------------------------------------------------------
(* Formatting and JSON *)

\* str(n) of a non-negative int, as the f-string of line 71 formats count.
RECURSIVE Decimal(_)
Decimal(n) ==
  IF n < 10 THEN <<48 + n>> ELSE Decimal(n \div 10) \o <<48 + (n % 10)>>

\* ".json"
DotJson == <<46, 106, 115, 111, 110>>

\* A variant of FileName that numbers the first duplicate 2.
FileName_OffByOne(safe_title, count) ==
  IF count > 0
    THEN safe_title \o <<95>> \o Decimal(count + 1) \o DotJson
    ELSE safe_title \o DotJson

\* Lines 70-73: the filename for a sanitised title seen count times before.
FileName(safe_title, count) ==
  IF count > 0
    THEN safe_title \o <<95>> \o Decimal(count) \o DotJson
    ELSE safe_title \o DotJson

HexDigit(d) == IF d < 10 THEN 48 + d ELSE 87 + d

\* json's string escaping with ensure_ascii=False: only the quote, the
\* backslash and the control characters are escaped.
EscapeChar(c) ==
  CASE c = 34 -> <<92, 34>>
    [] c = 92 -> <<92, 92>>
    [] c = 10 -> <<92, 110>>
    [] c = 13 -> <<92, 114>>
    [] c = 9  -> <<92, 116>>
    [] c = 8  -> <<92, 98>>
    [] c = 12 -> <<92, 102>>
    [] c < 32 /\ c \notin {8, 9, 10, 12, 13}
         -> <<92, 117, 48, 48, HexDigit(c \div 16), HexDigit(c % 16)>>
    [] OTHER -> <<c>>

RECURSIVE EscapeAll(_)
EscapeAll(s) ==
  IF s = <<>> THEN <<>> ELSE EscapeChar(Head(s)) \o EscapeAll(Tail(s))

EncodeString(s) == <<34>> \o EscapeAll(s) \o <<34>>

KeyTitle == <<116, 105, 116, 108, 101>>
KeyId == <<105, 100>>

\* json.dump(entry, out_f, ensure_ascii=False, indent=2) for an entry
\* {"title": <string>, "id": <int>}: one member per line, indented by two
\* spaces, "," between the members and ": " after a key.
JsonDump(e) ==
  <<123, 10, 32, 32>> \o EncodeString(KeyTitle) \o <<58, 32>>
    \o EncodeString(e.title)
    \o <<44, 10, 32, 32>> \o EncodeString(KeyId) \o <<58, 32>>
    \o Decimal(e.id) \o <<10, 125>>

\* The whitespace json.load skips between tokens.
JsonWs == {32, 10, 13, 9}

RECURSIVE SkipWs(_, _)
SkipWs(t, p) == IF p <= Len(t) /\ t[p] \in JsonWs THEN SkipWs(t, p + 1) ELSE p

HexVal(c) ==
  IF c \in 48..57 THEN c - 48
  ELSE IF c \in 97..102 THEN c - 87
  ELSE IF c \in 65..70 THEN c - 55
  ELSE -1

ScanFail == [ok |-> FALSE, val |-> <<>>, num |-> 0, next |-> 0]

\* The body of a JSON string from position p (after the opening quote) to
\* its closing quote, escapes decoded.
RECURSIVE ScanString(_, _, _)
ScanString(t, p, acc) ==
  IF p > Len(t) THEN ScanFail
  ELSE IF t[p] = 34 THEN [ok |-> TRUE, val |-> acc, num |-> 0, next |-> p + 1]
  ELSE IF t[p] = 92 THEN
    IF p + 1 > Len(t) THEN ScanFail
    ELSE LET c == t[p + 1] IN
      IF c \in {34, 92, 47} THEN ScanString(t, p + 2, Append(acc, c))
      ELSE IF c = 110 THEN ScanString(t, p + 2, Append(acc, 10))
      ELSE IF c = 114 THEN ScanString(t, p + 2, Append(acc, 13))
      ELSE IF c = 116 THEN ScanString(t, p + 2, Append(acc, 9))
      ELSE IF c = 98 THEN ScanString(t, p + 2, Append(acc, 8))
      ELSE IF c = 102 THEN ScanString(t, p + 2, Append(acc, 12))
      ELSE IF /\ c = 117
              /\ p + 5 <= Len(t)
              /\ \A k \in 2..5 : HexVal(t[p + k]) >= 0
        THEN ScanString(t, p + 6,
               Append(acc, 4096 * HexVal(t[p + 2]) + 256 * HexVal(t[p + 3])
                             + 16 * HexVal(t[p + 4]) + HexVal(t[p + 5])))
      ELSE ScanFail
  ELSE IF t[p] < 32 THEN ScanFail
  ELSE ScanString(t, p + 1, Append(acc, t[p]))

ParseString(t, p) ==
  IF p <= Len(t) /\ t[p] = 34 THEN ScanString(t, p + 1, <<>>) ELSE ScanFail

RECURSIVE ScanDigits(_, _, _)
ScanDigits(t, p, n) ==
  IF p <= Len(t) /\ t[p] \in 48..57
    THEN ScanDigits(t, p + 1, 10 * n + (t[p] - 48))
    ELSE [ok |-> TRUE, val |-> <<>>, num |-> n, next |-> p]

ParseInt(t, p) ==
  IF p <= Len(t) /\ t[p] \in 48..57 THEN ScanDigits(t, p, 0) ELSE ScanFail

Expect(t, p, c) == p <= Len(t) /\ t[p] = c

NotJson == [ok |-> FALSE, title |-> <<>>, id |-> 0]

\* json.load of the text of an object {"title": <string>, "id": <int>};
\* ok is FALSE for any other text.
JsonLoad(t) ==
  LET p1 == SkipWs(t, 1)
      k1 == ParseString(t, SkipWs(t, p1 + 1))
      p2 == SkipWs(t, k1.next)
      v1 == ParseString(t, SkipWs(t, p2 + 1))
      p3 == SkipWs(t, v1.next)
      k2 == ParseString(t, SkipWs(t, p3 + 1))
      p4 == SkipWs(t, k2.next)
      v2 == ParseInt(t, SkipWs(t, p4 + 1))
      p5 == SkipWs(t, v2.next)
  IN  IF /\ Expect(t, p1, 123)
         /\ k1.ok /\ k1.val = KeyTitle
         /\ Expect(t, p2, 58)
         /\ v1.ok
         /\ Expect(t, p3, 44)
         /\ k2.ok /\ k2.val = KeyId
         /\ Expect(t, p4, 58)
         /\ v2.ok
         /\ Expect(t, p5, 125)
         /\ SkipWs(t, p5 + 1) = Len(t) + 1
        THEN [ok |-> TRUE, title |-> v1.val, id |-> v2.num]
        ELSE NotJson

----------------------------------------------------------------------------
(* The inputs *)

\* The titles the input entries are drawn from:
\*   "A", " A", "A_1", "A/1", " " and the double quote.
Titles == {<<65>>, <<32, 65>>, <<65, 95, 49>>, <<65, 47, 49>>, <<32>>, <<34>>}

\* One element of the top-level value, by what the loop does with it:
\*   "str"     a mapping whose title is the string t (possibly empty)
\*   "absent"  a mapping with no title key
\*   "null"    a mapping whose title is null (a falsy value that is no string)
\*   "num"     a mapping whose title is a non-zero number (truthy, no string)
\*   "nondict" a value that is no mapping (it has no get method)
EntryShapes ==
  {[k |-> "str", t |-> s] : s \in Titles \cup {<<>>}}
    \cup {[k |-> x, t |-> <<>>] : x \in {"absent", "null", "num", "nondict"}}

NonDict == [k |-> "nondict", t |-> <<>>]

SeqsUpTo(S, n) == UNION {[1..m -> S] : m \in 0..n}

\* The input file: unreadable, not JSON, or a JSON value. items is what
\* iterating the value yields: the elements of an array, the keys of an object
\* and the characters of a string (strings, so no mappings); a number, a
\* boolean and null ("scalar") are not iterable.
Inputs ==
  {[kind |-> x, items |-> <<>>] : x \in {"unreadable", "invalid", "scalar"}}
    \cup {[kind |-> x, items |-> s] :
            x \in {"object", "string"}, s \in {<<>>, <<NonDict>>}}
    \cup {[kind |-> "array", items |-> s] : s \in SeqsUpTo(EntryShapes, MaxEntries)}

Old == <<111, 108, 100>>

\* What the output directory may hold before the first run: nothing, or a
\* file whose name a suffixed entry can be given ("A_1.json") and a file no
\* entry is given ("B.json").
PreExisting ==
  Put(Put(EmptyMap, <<65, 95, 49>> \o DotJson, Old), <<66>> \o DotJson, Old)

\* The entry at position k of the loaded array, as the JSON object it is.
EntryValue(k) == [title |-> entries.items[k].t, id |-> k]

----------------------------------------------------------------------------
(* split_dictionary, lines 44-77 *)

Init ==
  /\ input \in Inputs
  /\ outdir \in {"absent", "dir", "file"}
  /\ fs = IF outdir = "dir" THEN PreExisting ELSE EmptyMap
  /\ fs0 = fs
  /\ pc = "makedirs"
  /\ run = 1
  /\ entries = [kind |-> "none", items |-> <<>>]
  /\ i = 0
  /\ seen_counts = EmptyMap
  /\ log = <<>>
  /\ log0 = <<>>
  /\ err = "none"
  /\ raw = <<>> /\ name = <<>> /\ spc = "idle"

Raise(e) ==
  /\ pc' = "error"
  /\ err' = e

\* Line 52: os.makedirs(output_dir, exist_ok=True).
Makedirs ==
  /\ pc = "makedirs"
  /\ IF outdir = "file"
       THEN /\ Raise("FileExistsError")
            /\ UNCHANGED outdir
       ELSE /\ outdir' = "dir"
            /\ pc' = "load"
            /\ UNCHANGED err
  /\ UNCHANGED <<input, fs, run, entries, i, seen_counts, log, log0, fs0>>
  /\ UNCHANGED sanVars

\* Lines 57-61: open the input file, json.load, seen_counts = defaultdict(int).
Load ==
  /\ pc = "load"
  /\ IF input.kind = "unreadable"
       THEN /\ Raise("OSError")
            /\ UNCHANGED <<entries, i, seen_counts>>
       ELSE IF input.kind = "invalid"
       THEN /\ Raise("JSONDecodeError")
            /\ UNCHANGED <<entries, i, seen_counts>>
       ELSE /\ entries' = input
            /\ seen_counts' = EmptyMap
            /\ i' = 1
            /\ pc' = "loop"
            /\ UNCHANGED err
  /\ UNCHANGED <<input, outdir, fs, run, log, log0, fs0>>
  /\ UNCHANGED sanVars

\* Line 63, for entry in entries: a value that is not iterable.
IterFail ==
  /\ pc = "loop"
  /\ entries.kind = "scalar"
  /\ Raise("TypeError")
  /\ UNCHANGED <<input, outdir, fs, run, entries, i, seen_counts, log, log0, fs0>>
  /\ UNCHANGED sanVars

Iterable == entries.kind \in {"array", "object", "string"}

AtEntry == pc = "loop" /\ Iterable /\ i <= Len(entries.items)

\* Line 63: the iteration is exhausted and split_dictionary returns.
LoopEnd ==
  /\ pc = "loop"
  /\ Iterable
  /\ i > Len(entries.items)
  /\ pc' = "done"
  /\ UNCHANGED <<input, outdir, fs, run, entries, i, seen_counts, log, log0, fs0, err>>
  /\ UNCHANGED sanVars

\* Line 64: entry.get on a value that is no mapping.
NotMapping ==
  /\ AtEntry
  /\ entries.items[i].k = "nondict"
  /\ Raise("AttributeError")
  /\ UNCHANGED <<input, outdir, fs, run, entries, i, seen_counts, log, log0, fs0>>
  /\ UNCHANGED sanVars

\* A variant of Falsy that tests title is None.
Falsy_NoneOnly(e) == e.k \in {"absent", "null"}

\* Line 65, not title: the title is absent (get returns None), null, or "".
Falsy(e) == e.k \in {"absent", "null"} \/ (e.k = "str" /\ e.t = <<>>)

\* Lines 64-67: continue.
Skip ==
  /\ AtEntry
  /\ entries.items[i].k # "nondict"
  /\ Falsy(entries.items[i])
  /\ i' = i + 1
  /\ UNCHANGED <<input, outdir, fs, pc, run, entries, seen_counts, log, log0, fs0, err>>
  /\ UNCHANGED sanVars

\* Lines 68 and 40: re.sub on a title that is no string.
BadTitle ==
  /\ AtEntry
  /\ entries.items[i].k = "num"
  /\ Raise("TypeError")
  /\ UNCHANGED <<input, outdir, fs, run, entries, i, seen_counts, log, log0, fs0>>
  /\ UNCHANGED sanVars

\* A variant of WriteFile that opens the file in append mode.
WriteFile_Append(dir, filename, content) ==
  Put(dir, filename,
      IF filename \in DOMAIN dir THEN dir[filename] \o content ELSE content)

\* A variant of WriteFile that leaves a file that exists alone.
WriteFile_KeepExisting(dir, filename, content) ==
  IF filename \in DOMAIN dir THEN dir ELSE Put(dir, filename, content)

\* Lines 75-77: open(output_path, 'w') creates or truncates the file, and
\* json.dump writes the entry to it.
WriteFile(dir, filename, content) == Put(dir, filename, content)

\* Line 69: reading a defaultdict(int) inserts a missing key with 0.
Lookup(m, key) == IF key \in DOMAIN m THEN m[key] ELSE 0

\* A variant of Increment that counts in the else branch only.
Increment_FirstOnly(m, key) ==
  IF Lookup(m, key) > 0 THEN m ELSE Put(m, key, 1)

\* Line 74: seen_counts[safe_title] += 1.
Increment(m, key) == Put(m, key, Lookup(m, key) + 1)

\* Lines 68-77: one entry with a non-empty string title.
Write ==
  /\ AtEntry
  /\ entries.items[i].k = "str"
  /\ ~Falsy(entries.items[i])
  /\ LET safe_title == sanitise_filename(entries.items[i].t)
         count == Lookup(seen_counts, safe_title)
         filename == FileName(safe_title, count)
     IN  /\ seen_counts' = Increment(seen_counts, safe_title)
         /\ fs' = WriteFile(fs, filename, JsonDump(EntryValue(i)))
         /\ log' = Append(log, [entry |-> i, path |-> filename])
  /\ i' = i + 1
  /\ UNCHANGED <<input, outdir, pc, run, entries, log0, fs0, err>>
  /\ UNCHANGED sanVars

\* The script is invoked again with the same arguments (line 85): the input
\* file and the output directory are as the previous run left them, and
\* every local variable of split_dictionary is new.
Rerun ==
  /\ pc \in {"done", "error"}
  /\ run < MaxRuns
  /\ run' = run + 1
  /\ pc' = "makedirs"
  /\ entries' = [kind |-> "none", items |-> <<>>]
  /\ i' = 0
  /\ seen_counts' = EmptyMap
  /\ log' = <<>>
  /\ log0' = log
  /\ fs0' = fs
  /\ err' = "none"
  /\ UNCHANGED <<input, outdir, fs>>
  /\ UNCHANGED sanVars

Next ==
  \/ Makedirs
  \/ Load
  \/ IterFail
  \/ LoopEnd
  \/ NotMapping
  \/ Skip
  \/ BadTitle
  \/ Write
  \/ Rerun

Spec == Init /\ [][Next]_vars

----------------------------------------------------------------------------
(* sanitise_filename on its own, statement by statement *)

\* The characters the arguments are drawn from: the reserved characters,
\* space, tab and the ideographic space, and "_", "A" and a CJK character.
SanAlphabet == Reserved \cup {32, 9, 12288} \cup {95, 65, 27700}

InitSan ==
  /\ raw \in SeqsUpTo(SanAlphabet, MaxNameLen)
  /\ name = raw
  /\ spc = "sub"
  /\ input = [kind |-> "unreadable", items |-> <<>>]
  /\ outdir = "absent"
  /\ fs = EmptyMap
  /\ fs0 = EmptyMap
  /\ pc = "idle"
  /\ run = 1
  /\ entries = [kind |-> "none", items |-> <<>>]
  /\ i = 0
  /\ seen_counts = EmptyMap
  /\ log = <<>>
  /\ log0 = <<>>
  /\ err = "none"

splitVars == <<input, outdir, fs, pc, run, entries, i, seen_counts, log, log0, fs0, err>>

\* Line 40.
SanSub ==
  /\ spc = "sub"
  /\ name' = ReSub(name)
  /\ spc' = "strip"
  /\ UNCHANGED raw
  /\ UNCHANGED splitVars

\* Line 41.
SanStrip ==
  /\ spc = "strip"
  /\ name' = Strip(name)
  /\ spc' = "return"
  /\ UNCHANGED raw
  /\ UNCHANGED splitVars

\* Line 42: name is the value returned.
SanReturn ==
  /\ spc = "return"
  /\ spc' = "done"
  /\ UNCHANGED <<raw, name>>
  /\ UNCHANGED splitVars

NextSan ==
  \/ SanSub
  \/ SanStrip
  \/ SanReturn

SpecSan == InitSan /\ [][NextSan]_vars

----------------------------------------------------------------------------
(* Properties *)

Loaded == pc \in {"loop", "done", "error"} /\ entries.kind = "array"

Item(k) == entries.items[k]

\* Entry k has a title that is a non-empty string.
HasTitle(k) == Item(k).k = "str" /\ Len(Item(k).t) > 0

\* Entry k has no title, or one that is null or the empty string.
NoTitle(k) ==
  \/ Item(k).k \in {"absent", "null"}
  \/ Item(k).k = "str" /\ Len(Item(k).t) = 0

SafeTitle(k) == sanitise_filename(Item(k).t)

\* How many of the entries 1..k have a title that sanitises to t.
Rank(t, k) == Cardinality({m \in 1..k : HasTitle(m) /\ SafeTitle(m) = t})

\* "" for the first entry of a title, "_<r-1>" for the r-th (r - 1 < 10).
Suffix(r) == IF r = 1 THEN <<>> ELSE <<95, 48 + (r - 1)>>

Assigned == {log[j].path : j \in 1..Len(log)}

\* The last entry given the name f in this run.
LastWriter(f) ==
  LET js == {j \in 1..Len(log) : log[j].path = f}
  IN  log[CHOOSE j \in js : \A j2 \in js : j2 <= j].entry

\* C1: the entries with a non-empty title are written in source order, and the
\* r-th of those whose sanitised title is t is written to t.json when r = 1
\* and to t_<r-1>.json otherwise; so two entries with the same sanitised title
\* have different filenames.
C1_NamesInSourceOrder ==
  Loaded =>
    /\ \A m \in 1..(i - 1) : HasTitle(m) <=> \E j \in 1..Len(log) : log[j].entry = m
    /\ \A j \in 1..Len(log) :
         /\ log[j].entry \in 1..(i - 1)
         /\ \A j2 \in 1..Len(log) : j < j2 => log[j].entry < log[j2].entry
         /\ log[j].path =
              SafeTitle(log[j].entry)
                \o Suffix(Rank(SafeTitle(log[j].entry), log[j].entry))
                \o <<46, 106, 115, 111, 110>>
    /\ \A j, j2 \in 1..Len(log) :
         (j # j2 /\ SafeTitle(log[j].entry) = SafeTitle(log[j2].entry))
           => log[j].path # log[j2].path

\* Three entries titled "A" were written to A.json, A_1.json and A_2.json,
\* which hold the first, the second and the third.
C1_Witness ==
  /\ pc = "done"
  /\ Len(entries.items) = 3
  /\ \A m \in 1..3 : Item(m).k = "str" /\ Item(m).t = <<65>>
  /\ [j \in 1..Len(log) |-> log[j].path]
       = << <<65>> \o DotJson, <<65, 95, 49>> \o DotJson, <<65, 95, 50>> \o DotJson >>
  /\ \A j \in 1..3 : fs[log[j].path] = JsonDump(EntryValue(j))

\* C2: after a run, the file assigned to each entry with a non-empty title
\* deserialises to that entry.
C2_RoundTrip ==
  (pc = "done" /\ entries.kind = "array") =>
    \A j \in 1..Len(log) :
      LET r == JsonLoad(fs[log[j].path])
      IN  /\ r.ok
          /\ r.title = Item(log[j].entry).t
          /\ r.id = log[j].entry

\* C3: after a run into an empty directory, the directory holds as many files
\* as there are entries with a non-empty title, and no two of them share one.
C3_OneFilePerEntry ==
  (pc = "done" /\ entries.kind = "array" /\ fs0 = EmptyMap) =>
    /\ Cardinality(DOMAIN fs)
         = Cardinality({m \in 1..Len(entries.items) : HasTitle(m)})
    /\ \A j, j2 \in 1..Len(log) : j # j2 => log[j].path # log[j2].path

\* C4: what sanitise_filename returns holds no reserved character and neither
\* starts nor ends with whitespace.
C4_SanitisedIsSafe ==
  spc = "done" =>
    /\ \A k \in 1..Len(name) : name[k] \notin {92, 47, 58, 42, 63, 34, 60, 62, 124}
    /\ name # <<>> => (name[1] \notin Whitespace /\ name[Len(name)] \notin Whitespace)

\* A name with whitespace at both ends and a reserved character was sanitised
\* to a non-empty name.
C4_Witness ==
  /\ spc = "done"
  /\ Len(raw) = 3
  /\ raw[1] \in Whitespace /\ raw[3] \in Whitespace /\ raw[2] \in Reserved
  /\ name = <<95>>

Untitled(e) == e.k \in {"absent", "null"} \/ (e.k = "str" /\ Len(e.t) = 0)

\* The names the loop of lines 63-74 gives to a sequence of titles none of
\* which is skipped.
RECURSIVE NamesOf(_, _, _)
NamesOf(ts, counts, acc) ==
  IF ts = <<>> THEN acc
  ELSE LET st == sanitise_filename(Head(ts))
       IN  NamesOf(Tail(ts), Increment(counts, st),
                   Append(acc, FileName(st, Lookup(counts, st))))

\* The titles of the entries handled so far, the untitled ones removed.
TitlesKept ==
  LET kept == SelectSeq(SubSeq(entries.items, 1, i - 1), LAMBDA e : ~Untitled(e))
  IN  [k \in 1..Len(kept) |-> kept[k].t]

C5_AsIfRemoved ==
  Loaded => [j \in 1..Len(log) |-> log[j].path] = NamesOf(TitlesKept, EmptyMap, <<>>)

C5_SkipStep ==
  (AtEntry /\ entries.kind = "array" /\ NoTitle(i)) =>
    /\ fs' = fs
    /\ seen_counts' = seen_counts
    /\ log' = log
    /\ err' = err
    /\ pc' = "loop"
    /\ i' = i + 1

\* C5: an entry with no title, a null title or an empty title writes no file,
\* raises nothing and leaves the title-count table alone, and the names given
\* to the entries are those the loop gives to the input without such entries.
C5_SkipLeavesNoTrace == [][C5_SkipStep]_vars /\ []C5_AsIfRemoved

\* Two entries without a usable title (of two different kinds) were passed,
\* and the entry after them was written under its plain name.
C5_Witness ==
  /\ pc = "done"
  /\ entries.kind = "array"
  /\ Len(entries.items) = 3
  /\ NoTitle(1) /\ NoTitle(2)
  /\ Item(1).k # Item(2).k
  /\ HasTitle(3)
  /\ log = <<[entry |-> 3, path |-> SafeTitle(3) \o DotJson]>>
  /\ DOMAIN fs = (DOMAIN fs0) \cup {SafeTitle(3) \o DotJson}
  /\ seen_counts[SafeTitle(3)] = 1

\* C6: a run on an input file that is not JSON, or whose top-level value is no
\* array, ends in an error and writes no file.
C6_MalformedIsAnError ==
  (pc \in {"done", "error"} /\ outdir = "dir"
     /\ input.kind \in {"invalid", "object", "string", "scalar"}) =>
    /\ pc = "error"
    /\ fs = fs0

\* C7: a second run on the same input and directory opens the same files in
\* the same order and leaves the directory as the first run left it; its
\* title-count table starts empty.
C7_RerunIdempotent ==
  /\ (run >= 2 /\ pc \in {"done", "error"}) => (fs = fs0 /\ log = log0)
  /\ (run >= 2 /\ pc = "loop" /\ i = 1) => seen_counts = EmptyMap

\* A second run has rewritten the files of a first run that wrote several,
\* one of them twice.
C7_Witness ==
  /\ run = 2
  /\ pc = "done"
  /\ Len(log) = 3
  /\ Cardinality(Assigned) = 2
  /\ fs = fs0

\* C8: the sanitiser turns each reserved character into one underscore, drops
\* a run of whitespace at each end and nothing else: the result is the
\* argument without a whitespace prefix and a whitespace suffix, character by
\* character, reserved characters being underscores.
C8_OnlyReservedAndEdges ==
  /\ spc = "strip" =>
       /\ Len(name) = Len(raw)
       /\ \A k \in 1..Len(raw) :
            name[k] = IF raw[k] \in Reserved THEN 95 ELSE raw[k]
  /\ spc = "done" =>
       \E a, b \in 0..Len(raw) :
         /\ a + b + Len(name) = Len(raw)
         /\ \A k \in 1..a : raw[k] \in Whitespace
         /\ \A k \in (Len(raw) - b + 1)..Len(raw) : raw[k] \in Whitespace
         /\ \A k \in 1..Len(name) :
              name[k] = IF raw[a + k] \in Reserved THEN 95 ELSE raw[a + k]

\* A name of a CJK character, a space and a reserved character came back with
\* the CJK character and the interior space in place.
C8_Witness ==
  /\ spc = "done"
  /\ Len(raw) = 3 /\ Len(name) = 3
  /\ raw[1] > 127 /\ name[1] = raw[1]
  /\ raw[2] \in Whitespace /\ name[2] = raw[2]
  /\ raw[3] \in Reserved /\ name[3] = 95

\* C9: the table is empty when the loop starts, and after any prefix of the
\* entries it holds, for each sanitised title, the number of entries of the
\* prefix with a non-empty title that sanitises to it (and no other key).
C9_CountsMatchPrefix ==
  /\ Loaded =>
       /\ DOMAIN seen_counts = {SafeTitle(m) : m \in {n \in 1..(i - 1) : HasTitle(n)}}
       /\ \A t \in DOMAIN seen_counts : seen_counts[t] = Rank(t, i - 1)
  /\ (pc = "loop" /\ i = 1) => seen_counts = EmptyMap

\* Two titles that sanitise to the same name, and a third, have been counted.
C9_Witness ==
  /\ pc = "done"
  /\ Cardinality(DOMAIN seen_counts) = 2
  /\ \E t \in DOMAIN seen_counts : seen_counts[t] = 2
  /\ \E m, n \in 1..Len(entries.items) :
       HasTitle(m) /\ HasTitle(n) /\ Item(m).t # Item(n).t /\ SafeTitle(m) = SafeTitle(n)

\* C10: each file whose name was given to an entry holds the serialisation of
\* the last entry given that name; every other file of the directory is as the
\* run found it; no file is deleted.
C10_LastWriterWins ==
  Loaded =>
    /\ DOMAIN fs = (DOMAIN fs0) \cup Assigned
    /\ \A f \in Assigned : fs[f] = JsonDump(EntryValue(LastWriter(f)))
    /\ \A f \in (DOMAIN fs0) \ Assigned : fs[f] = fs0[f]

\* A file that was there was overwritten, by the second of two entries given
\* its name, and another file that was there is as it was.
C10_Witness ==
  /\ pc = "done"
  /\ run = 1
  /\ \E j, j2 \in 1..Len(log) :
       /\ j < j2
       /\ log[j].path = log[j2].path
       /\ log[j].path \in DOMAIN fs0
       /\ fs[log[j].path] = JsonDump(EntryValue(log[j2].entry))
       /\ fs[log[j].path] # fs0[log[j].path]
  /\ \E f \in DOMAIN fs0 : f \notin Assigned /\ fs[f] = Old

====
